---- MODULE Spec2Model ----
(***************************************************************************)
(* StaticVector<T, N>: a fixed-capacity vector over an array of            *)
(* MaybeUninit<T> slots and a length counter (src/src/main.rs).            *)
(*                                                                         *)
(* A slot is modelled by the bits it holds (storage) and by whether those  *)
(* bits are a live, owned T (live).  Moving a value out of a slot (read()  *)
(* in unchecked_pop) leaves the bits behind and ends the liveness.         *)
(***************************************************************************)
EXTENDS Integers, Sequences, FiniteSets, TLC

\* ---- bounds ------------------------------------------------------------
Cap == 3                      \* the const generic N
MaxVal == 2                   \* element values are 1..MaxVal

Values == 1..MaxVal
Slots == 0..(Cap - 1)
\* index and length arguments: every value in range and one past capacity
Indices == 0..(Cap + 1)

\* ---- storage -----------------------------------------------------------
\* MaybeUninit::uninit(): indeterminate bits
Uninit == 0

Bits == Values \cup {Uninit}

\* The two places as_slice_mut() can point to: the container's own storage,
\* or the dangling pointer of the empty slice literal `&mut []`.
StoragePtr == "storage"
Dangling == "dangling"

\* The outcomes of a write through the dangling pointer: the process
\* faults, or the write lands outside the container and is lost.
UBOutcomes == {"fault", "stray"}

StaticVector(st, lv, l) == [storage |-> st, live |-> lv, len |-> l]

\* the value an operation hands back: the container after it, how it ended
\* ("ok", "panic", "crash"), the returned Option<T> (<<>> is None, <<v>> is
\* Some(v)) and the panic message (<<>> when it did not panic)
Result(vec, out, ret, msg) ==
    [vec |-> vec, outcome |-> out, ret |-> ret, msg |-> msg]

Write(f, i, v) == [f EXCEPT ![i] = v]

new == StaticVector([i \in Slots |-> Uninit], [i \in Slots |-> FALSE], 0)

capacity == Cap

is_empty(self) == self.len = 0

\* push without the bounds check of storage.get_mut(len)
push_unchecked(self, value) ==
    Result(StaticVector(Write(self.storage, self.len, value),
                        Write(self.live, self.len, TRUE),
                        self.len + 1), "ok", <<>>, <<>>)

\* push that advances len before it writes
push_increment_first(self, value) ==
    IF self.len \in Slots
    THEN Result(StaticVector(Write(self.storage, self.len + 1, value),
                             Write(self.live, self.len + 1, TRUE),
                             self.len + 1), "ok", <<>>, <<>>)
    ELSE Result(self, "panic", <<>>, <<"capacity reached", self.len>>)

push(self, value) ==
    IF self.len \in Slots
    THEN Result(StaticVector(Write(self.storage, self.len, value),
                             Write(self.live, self.len, TRUE),
                             self.len + 1), "ok", <<>>, <<>>)
    ELSE Result(self, "panic", <<>>, <<"capacity reached", self.len>>)

as_slice_mut(self) ==
    IF is_empty(self)
    THEN [ptr |-> Dangling, len |-> 0]
    ELSE [ptr |-> StoragePtr, len |-> self.len]

as_mut_ptr(self) == as_slice_mut(self).ptr

\* unchecked_pop that reads the first slot instead of the last
unchecked_pop_first(self) ==
    LET l == self.len - 1
    IN  Result(StaticVector(self.storage, Write(self.live, l, FALSE), l),
               "ok", <<self.storage[0]>>, <<>>)

\* unchecked_pop that reads the slot before it lowers len
unchecked_pop_stale_len(self) ==
    LET l == self.len - 1
    IN  Result(StaticVector(self.storage, Write(self.live, l, FALSE), l),
               "ok", <<self.storage[IF self.len \in Slots THEN self.len ELSE l]>>,
               <<>>)

unchecked_pop(self) ==
    LET l == self.len - 1
    IN  Result(StaticVector(self.storage, Write(self.live, l, FALSE), l),
               "ok", <<self.storage[l]>>, <<>>)

pop(self) ==
    IF is_empty(self)
    THEN Result(self, "ok", <<>>, <<>>)
    ELSE unchecked_pop(self)

last_mut(self) ==
    IF as_slice_mut(self).len = 0 THEN <<>> ELSE <<as_slice_mut(self).len - 1>>

\* pop_if that pops whatever the predicate answers
pop_if_ignores_answer(self, f) ==
    IF last_mut(self) = <<>>
    THEN Result(self, "ok", <<>>, <<>>)
    ELSE LET i == last_mut(self)[1]
             seen == IF f.set = Uninit
                     THEN self
                     ELSE StaticVector(Write(self.storage, i, f.set),
                                       self.live, self.len)
         IN  pop(seen)

\* f is the predicate's behaviour on the &mut T it is handed: what it
\* returns, and the value it leaves in the element (Uninit: it writes none)
pop_if(self, f) ==
    IF last_mut(self) = <<>>
    THEN Result(self, "ok", <<>>, <<>>)
    ELSE LET i == last_mut(self)[1]
             seen == IF f.set = Uninit
                     THEN self
                     ELSE StaticVector(Write(self.storage, i, f.set),
                                       self.live, self.len)
         IN  IF f.ret THEN pop(seen) ELSE Result(seen, "ok", <<>>, <<>>)

RECURSIVE clear(_)
clear(self) ==
    IF pop(self).ret # <<>> THEN clear(pop(self).vec) ELSE pop(self).vec

RECURSIVE unchecked_truncate(_, _)
unchecked_truncate(self, new_len) ==
    IF self.len # new_len
    THEN unchecked_truncate(pop(self).vec, new_len)
    ELSE self

\* truncate that stops one element short of new_len
truncate_keeps_one(self, new_len) ==
    IF new_len < self.len THEN unchecked_truncate(self, new_len + 1) ELSE self

truncate(self, new_len) ==
    IF new_len < self.len THEN unchecked_truncate(self, new_len) ELSE self

\* the fill loop started one slot early
Fill_from_before(f, from, to, v) ==
    [i \in Slots |-> IF i >= from - 1 /\ i < to THEN v ELSE f[i]]

\* for idx in from..to { slot idx := v }
Fill(f, from, to, v) ==
    [i \in Slots |-> IF i >= from /\ i < to THEN v ELSE f[i]]

\* resize whose growing range ends at capacity instead of capacity + 1
resize_exclusive(self, new_len, value) ==
    IF new_len < self.len
    THEN Result(unchecked_truncate(self, new_len), "ok", <<>>, <<>>)
    ELSE IF new_len >= self.len /\ new_len < capacity
    THEN Result(StaticVector(Fill(self.storage, self.len, new_len, value),
                             Fill(self.live, self.len, new_len, TRUE),
                             new_len), "ok", <<>>, <<>>)
    ELSE Result(self, "panic", <<>>,
                <<"resize call bigger than capacity", self.len, capacity>>)

\* resize that fills the free slots before it finds new_len out of range
resize_fill_then_panic(self, new_len, value) ==
    IF new_len < self.len
    THEN Result(unchecked_truncate(self, new_len), "ok", <<>>, <<>>)
    ELSE IF new_len >= self.len /\ new_len < capacity + 1
    THEN Result(StaticVector(Fill(self.storage, self.len, new_len, value),
                             Fill(self.live, self.len, new_len, TRUE),
                             new_len), "ok", <<>>, <<>>)
    ELSE Result(StaticVector(Fill(self.storage, self.len, capacity, value),
                             Fill(self.live, self.len, capacity, TRUE),
                             capacity), "panic", <<>>,
                <<"resize call bigger than capacity", self.len, capacity>>)

resize(self, new_len, value) ==
    IF new_len < self.len
    THEN Result(unchecked_truncate(self, new_len), "ok", <<>>, <<>>)
    ELSE IF new_len >= self.len /\ new_len < capacity + 1
    THEN Result(StaticVector(Fill(self.storage, self.len, new_len, value),
                             Fill(self.live, self.len, new_len, TRUE),
                             new_len), "ok", <<>>, <<>>)
    ELSE Result(self, "panic", <<>>,
                <<"resize call bigger than capacity", self.len, capacity>>)

\* slice[index..l].rotate_left(1)
RotateLeft(f, index, l) ==
    [i \in Slots |-> IF i >= index /\ i < l
                     THEN (IF i = l - 1 THEN f[index] ELSE f[i + 1])
                     ELSE f[i]]

\* std::ptr::swap of slots a and b
Swap(f, a, b) ==
    [i \in Slots |-> IF i = a THEN f[b] ELSE IF i = b THEN f[a] ELSE f[i]]

\* remove that swaps the last element in instead of rotating
remove_unordered(self, index) ==
    IF index < self.len
    THEN unchecked_pop(StaticVector(Swap(self.storage, index, self.len - 1),
                                    Swap(self.live, index, self.len - 1),
                                    self.len))
    ELSE Result(self, "panic", <<>>, <<"removal index", index, self.len>>)

remove(self, index) ==
    IF index < self.len
    THEN unchecked_pop(StaticVector(RotateLeft(self.storage, index, self.len),
                                    RotateLeft(self.live, index, self.len),
                                    self.len))
    ELSE Result(self, "panic", <<>>, <<"removal index", index, self.len>>)

\* remove_swap that rotates instead of swapping
remove_swap_ordered(self, index) ==
    IF index < self.len
    THEN unchecked_pop(StaticVector(RotateLeft(self.storage, index, self.len),
                                    RotateLeft(self.live, index, self.len),
                                    self.len))
    ELSE Result(self, "panic", <<>>, <<"removal index", index, self.len>>)

\* remove_swap that refuses the last index
remove_swap_strict(self, index) ==
    IF index + 1 < self.len
    THEN unchecked_pop(StaticVector(Swap(self.storage, index, self.len - 1),
                                    Swap(self.live, index, self.len - 1),
                                    self.len))
    ELSE Result(self, "panic", <<>>, <<"removal index", index, self.len>>)

remove_swap(self, index) ==
    IF index < self.len
    THEN unchecked_pop(StaticVector(Swap(self.storage, index, self.len - 1),
                                    Swap(self.live, index, self.len - 1),
                                    self.len))
    ELSE Result(self, "panic", <<>>, <<"removal index", index, self.len>>)

\* std::ptr::copy(p, p.add(1), count) with p at slot index
CopyRight(f, index, count) ==
    [i \in Slots |-> IF i > index /\ i <= index + count THEN f[i - 1] ELSE f[i]]

\* ub resolves the write through a dangling pointer (see UBOutcomes)
insert(self, index, element, ub) ==
    IF index > self.len
    THEN Result(self, "panic", <<>>, <<"insertion index", index, self.len>>)
    ELSE IF self.len = capacity
    THEN Result(self, "panic", <<>>, <<"capacity reached", self.len>>)
    ELSE IF as_mut_ptr(self) = StoragePtr
    THEN LET st == IF index < self.len
                   THEN CopyRight(self.storage, index, self.len - index)
                   ELSE self.storage
             lv == IF index < self.len
                   THEN CopyRight(self.live, index, self.len - index)
                   ELSE self.live
         IN  Result(StaticVector(Write(st, index, element),
                                 Write(lv, index, TRUE),
                                 self.len + 1), "ok", <<>>, <<>>)
    ELSE IF ub = "fault"
    THEN Result(self, "crash", <<>>, <<>>)
    ELSE Result(StaticVector(self.storage, self.live, self.len + 1),
                "ok", <<>>, <<>>)

\* Drop for StaticVector
drop(self) ==
    StaticVector(self.storage, [i \in Slots |-> self.live[i] /\ i >= self.len], 0)

clone(self) ==
    StaticVector([i \in Slots |-> IF i < self.len THEN self.storage[i] ELSE Uninit],
                 [i \in Slots |-> i < self.len /\ self.live[i]],
                 self.len)

Min(a, b) == IF a < b THEN a ELSE b

\* Default for StaticVector
default == new

\* From<&[T]> that takes the slice's length for the container's
from_slice_unclamped(array) ==
    LET new_len == Len(array)
    IN  StaticVector([i \in Slots |-> IF i < new_len THEN array[i + 1] ELSE Uninit],
                     [i \in Slots |-> i < new_len],
                     new_len)

\* From<&[T]>: zip stops at the shorter of the storage and the slice
from_slice(array) ==
    LET new_len == Min(Cap, Len(array))
    IN  StaticVector([i \in Slots |-> IF i < new_len THEN array[i + 1] ELSE Uninit],
                     [i \in Slots |-> i < new_len],
                     new_len)

\* From<[T; N]>
from_array(array) ==
    StaticVector([i \in Slots |-> array[i + 1]], [i \in Slots |-> TRUE], Cap)

\* ---- static_vec![e1, ..., ek; N] -----------------------------------------
\* count_elements!: one per element of the list
RECURSIVE count_elements(_)
count_elements(elems) ==
    IF elems = <<>> THEN 0
    ELSE IF Len(elems) = 1 THEN 1
    ELSE 1 + count_elements(Tail(elems))

\* the list arm without its assertion
static_vec_unasserted(elems) ==
    Result(from_slice(elems), "ok", <<>>, <<>>)

\* the arm ($($elem:expr),* ; $capacity:expr) with $capacity = N: the
\* assertion, then From<&[T]> on the list
static_vec(elems) ==
    IF capacity >= count_elements(elems)
    THEN Result(from_slice(elems), "ok", <<>>, <<>>)
    ELSE Result(new, "panic", <<>>,
                <<"capacity must be bigger than elements count",
                  capacity, count_elements(elems)>>)

\* ---- owning iterator --------------------------------------------------
IntoIter(st, lv, l, idx) == [storage |-> st, live |-> lv, len |-> l, index |-> idx]

\* into_iter that leaves the container its length
into_iter_keep_len(self) ==
    [iter |-> IntoIter(self.storage, self.live, self.len, 0),
     vec |-> self]

\* IntoIterator for StaticVector: the iterator gets a bitwise copy of the
\* storage and the length, and with them the ownership of the elements; the
\* container is left with len 0
into_iter(self) ==
    [iter |-> IntoIter(self.storage, self.live, self.len, 0),
     vec |-> StaticVector(self.storage, [i \in Slots |-> FALSE], 0)]

\* next bounded by the storage instead of by len
next_unbounded(it) ==
    IF it.index < Cap
    THEN [iter |-> IntoIter(it.storage, Write(it.live, it.index, FALSE),
                            it.len, it.index + 1),
          ret |-> <<it.storage[it.index]>>]
    ELSE [iter |-> it, ret |-> <<>>]

\* IntoIter::next: the iterator after the call and the returned Option<T>
next(it) ==
    IF it.index < it.len
    THEN [iter |-> IntoIter(it.storage, Write(it.live, it.index, FALSE),
                            it.len, it.index + 1),
          ret |-> <<it.storage[it.index]>>]
    ELSE [iter |-> it, ret |-> <<>>]

\* Drop for IntoIter: the slots it drops, in order
RECURSIVE iter_dropped(_)
iter_dropped(it) ==
    IF it.index # it.len
    THEN <<it.index>> \o iter_dropped([it EXCEPT !.index = it.index + 1])
    ELSE <<>>

\* Drop for IntoIter: the iterator it leaves behind
iter_drop(it) ==
    IntoIter(it.storage,
             [i \in Slots |-> it.live[i] /\ ~(i >= it.index /\ i < it.len)],
             it.len, it.len)

\* Drop for StaticVector: the slots it drops, in order
RECURSIVE dropped(_)
dropped(self) ==
    IF self.len # 0
    THEN <<self.len - 1>> \o dropped([self EXCEPT !.len = self.len - 1])
    ELSE <<>>

\* ---- the loops, one iteration at a time ----------------------------------
\* one test of `while self.pop().is_some() {}`: the container after the pop
\* and whether the loop goes round again
clear_step(self) ==
    [vec |-> pop(self).vec, again |-> pop(self).ret # <<>>]

\* one test of `while self.len() != new_len { self.pop(); }`
unchecked_truncate_step(self, new_len) ==
    IF self.len # new_len
    THEN [vec |-> pop(self).vec, again |-> TRUE]
    ELSE [vec |-> self, again |-> FALSE]

\* truncate that enters the loop whenever new_len differs from len
truncate_unguarded(self, new_len) == new_len # self.len

\* truncate's test before it calls unchecked_truncate
truncate_shrinks(self, new_len) == new_len < self.len

\* (..self.len()).contains(&new_len)
less_than_current(self, new_len) == new_len < self.len

\* (self.len()..self.capacity() + 1).contains(&new_len)
more_than_current(self, new_len) ==
    new_len >= self.len /\ new_len < capacity + 1

\* one turn of `for idx in self.len..new_len`: slot idx is written while
\* idx < new_len; after the range is exhausted len becomes new_len
fill_step(self, idx, new_len, value) ==
    IF idx < new_len
    THEN [vec |-> StaticVector(Write(self.storage, idx, value),
                               Write(self.live, idx, TRUE), self.len),
          idx |-> idx + 1, again |-> TRUE]
    ELSE [vec |-> StaticVector(self.storage, self.live, new_len),
          idx |-> idx, again |-> FALSE]

\* ---- values destroyed by an operation ---------------------------------
\* the slots whose value unchecked_truncate pops and discards, in order
RECURSIVE truncated(_, _)
truncated(self, new_len) ==
    IF self.len # new_len
    THEN <<self.len - 1>> \o truncated(pop(self).vec, new_len)
    ELSE <<>>

\* the slots whose value clear pops and discards, in order
RECURSIVE cleared(_)
cleared(self) ==
    IF pop(self).ret # <<>>
    THEN <<self.len - 1>> \o cleared(pop(self).vec)
    ELSE <<>>

\* the slots whose value the call opname(n) on self destroys
destroyed(opname, self, n) ==
    CASE opname = "clear" -> cleared(self)
      [] opname \in {"truncate", "resize"} ->
            IF n < self.len THEN truncated(self, n) ELSE <<>>
      [] OTHER -> <<>>

\* ---- state -------------------------------------------------------------
VARIABLES storage, live, len, status, last, run, iter, taken

vars == <<storage, live, len, status, last, run, iter, taken>>

Self == StaticVector(storage, live, len)

NoOp == [op |-> "new", index |-> 0, value |-> 0, n |-> 0,
         outcome |-> "ok", ret |-> <<>>, msg |-> <<>>, pre |-> new,
         array |-> <<>>, dropped |-> <<>>]

\* no iterator exists
NoIter == IntoIter(new.storage, new.live, 0, 0)

\* what the caller has got from the iterator: the values yielded, the number
\* of calls of next, and whether a call has returned None
NoneTaken == [seq |-> <<>>, calls |-> 0, ended |-> FALSE]

Init ==
    /\ storage = new.storage
    /\ live = new.live
    /\ len = new.len
    /\ status = "live"
    /\ last = NoOp
    /\ run = [on |-> TRUE, seq |-> <<>>]
    /\ iter = NoIter
    /\ taken = NoneTaken

\* the container becomes res.vec; last records the call and its outcome
Apply(opname, index, value, n, res) ==
    \E r \in {res} :
        /\ storage' = r.vec.storage
        /\ live' = r.vec.live
        /\ len' = r.vec.len
        /\ status' = IF r.outcome = "crash" THEN "crashed" ELSE status
        /\ last' = [op |-> opname, index |-> index, value |-> value, n |-> n,
                    outcome |-> r.outcome, ret |-> r.ret, msg |-> r.msg,
                    pre |-> Self, array |-> <<>>,
                    dropped |-> destroyed(opname, Self, n)]
        /\ run' = IF opname = "push" /\ r.outcome = "ok" /\ run.on
                  THEN [on |-> TRUE, seq |-> Append(run.seq, value)]
                  ELSE [on |-> FALSE, seq |-> <<>>]
        /\ UNCHANGED <<iter, taken>>

Push ==
    /\ status = "live"
    /\ \E value \in Values : Apply("push", 0, value, 0, push(Self, value))

Pop ==
    /\ status = "live"
    /\ Apply("pop", 0, 0, 0, pop(Self))

\* last.value records what the predicate writes and last.n what it answers
\* (1 for true, 0 for false)
PopIf ==
    /\ status = "live"
    /\ \E r \in BOOLEAN, w \in Bits :
          Apply("pop_if", 0, w, IF r THEN 1 ELSE 0,
                pop_if(Self, [ret |-> r, set |-> w]))

Clear ==
    /\ status = "live"
    /\ Apply("clear", 0, 0, 0, Result(clear(Self), "ok", <<>>, <<>>))

Truncate ==
    /\ status = "live"
    /\ \E n \in Indices :
          Apply("truncate", 0, 0, n, Result(truncate(Self, n), "ok", <<>>, <<>>))

Resize ==
    /\ status = "live"
    /\ \E n \in Indices, value \in Values :
          Apply("resize", 0, value, n, resize(Self, n, value))

Remove ==
    /\ status = "live"
    /\ \E index \in Indices : Apply("remove", index, 0, 0, remove(Self, index))

RemoveSwap ==
    /\ status = "live"
    /\ \E index \in Indices :
          Apply("remove_swap", index, 0, 0, remove_swap(Self, index))

Insert ==
    /\ status = "live"
    /\ \E index \in Indices, element \in Values, ub \in UBOutcomes :
          Apply("insert", index, element, 0, insert(Self, index, element, ub))

Clone ==
    /\ status = "live"
    /\ Apply("clone", 0, 0, 0, Result(clone(Self), "ok", <<>>, <<>>))

\* the container goes out of scope (also what unwinding from a panic does)
Drop ==
    /\ status = "live"
    /\ storage' = drop(Self).storage
    /\ live' = drop(Self).live
    /\ len' = drop(Self).len
    /\ status' = "dropped"
    /\ last' = [NoOp EXCEPT !.op = "drop", !.pre = Self,
                             !.dropped = dropped(Self)]
    /\ run' = [on |-> FALSE, seq |-> <<>>]
    /\ UNCHANGED <<iter, taken>>

Construct(opname, array, vec) ==
    \E v \in {vec} :
        /\ storage' = v.storage
        /\ live' = v.live
        /\ len' = v.len
        /\ status' = "live"
        /\ last' = [NoOp EXCEPT !.op = opname, !.array = array]
        /\ run' = [on |-> v.len = 0, seq |-> <<>>]
        /\ iter' = NoIter
        /\ taken' = NoneTaken

New ==
    /\ status = "dropped"
    /\ Construct("new", <<>>, new)

Default ==
    /\ status = "dropped"
    /\ Construct("default", <<>>, default)

FromArray ==
    /\ status = "dropped"
    /\ \E array \in [1..Cap -> Values] : Construct("from_array", array, from_array(array))

\* on a failed assertion no container comes into being
StaticVec ==
    /\ status = "dropped"
    /\ \E k \in Indices : \E elems \in [1..k -> Values] :
       \E r \in {static_vec(elems)} :
          /\ storage' = r.vec.storage
          /\ live' = r.vec.live
          /\ len' = r.vec.len
          /\ status' = IF r.outcome = "ok" THEN "live" ELSE "dropped"
          /\ last' = [NoOp EXCEPT !.op = "static_vec", !.array = elems,
                                   !.outcome = r.outcome, !.msg = r.msg]
          /\ run' = [on |-> r.outcome = "ok" /\ elems = <<>>, seq |-> <<>>]
          /\ iter' = NoIter
          /\ taken' = NoneTaken

FromSlice ==
    /\ status = "dropped"
    /\ \E k \in Indices : \E array \in [1..k -> Values] :
          Construct("from_slice", array, from_slice(array))

\* bound on the calls of next on one iterator: past the end, twice
MaxCalls == Cap + 2

\* vec.into_iter(): the container is moved into the call and dropped at its
\* end, with len 0
IntoIterCall ==
    /\ status = "live"
    /\ storage' = drop(into_iter(Self).vec).storage
    /\ live' = drop(into_iter(Self).vec).live
    /\ len' = drop(into_iter(Self).vec).len
    /\ iter' = into_iter(Self).iter
    /\ taken' = NoneTaken
    /\ status' = "iter"
    /\ last' = [NoOp EXCEPT !.op = "into_iter", !.pre = Self,
                             !.dropped = dropped(into_iter(Self).vec)]
    /\ run' = [on |-> FALSE, seq |-> <<>>]

IterNext ==
    /\ status = "iter"
    /\ taken.calls < MaxCalls
    /\ iter' = next(iter).iter
    /\ taken' = [seq |-> taken.seq \o next(iter).ret,
                 calls |-> taken.calls + 1,
                 ended |-> taken.ended \/ next(iter).ret = <<>>]
    /\ last' = [last EXCEPT !.op = "next", !.ret = next(iter).ret,
                            !.dropped = <<>>]
    /\ UNCHANGED <<storage, live, len, status, run>>

\* the iterator goes out of scope; the run of the program ends here
IterDrop ==
    /\ status = "iter"
    /\ iter' = iter_drop(iter)
    /\ status' = "consumed"
    /\ last' = [last EXCEPT !.op = "iter_drop", !.ret = <<>>,
                            !.dropped = iter_dropped(iter)]
    /\ UNCHANGED <<storage, live, len, run, taken>>

Next ==
    \/ Push
    \/ Pop
    \/ PopIf
    \/ Clear
    \/ Truncate
    \/ Resize
    \/ Remove
    \/ RemoveSwap
    \/ Insert
    \/ Clone
    \/ Drop
    \/ New
    \/ Default
    \/ FromArray
    \/ FromSlice
    \/ StaticVec
    \/ IntoIterCall
    \/ IterNext
    \/ IterDrop

Spec == Init /\ [][Next]_vars

\* ---- clear, truncate and resize with their loops unrolled ----------------
\* a call is entered: last is its frame (pre the container at entry, n the
\* target, index the fill loop's idx, dropped the slots popped so far) and
\* status names the loop it is in
Enter(opname, value, n, loop) ==
    /\ status' = loop
    /\ last' = [op |-> opname, index |-> len, value |-> value, n |-> n,
                outcome |-> "running", ret |-> <<>>, msg |-> <<>>,
                pre |-> Self, array |-> <<>>, dropped |-> <<>>]
    /\ run' = [on |-> FALSE, seq |-> <<>>]
    /\ UNCHANGED <<storage, live, len, iter, taken>>

\* one iteration of a loop: the container becomes vec; the loop goes round
\* again, or the call returns
Iterate(vec, again, idx) ==
    /\ storage' = vec.storage
    /\ live' = vec.live
    /\ len' = vec.len
    /\ status' = IF again THEN status ELSE "live"
    /\ last' = [last EXCEPT
                  !.index = idx,
                  !.outcome = IF again THEN "running" ELSE "ok",
                  !.dropped = IF vec.len < len THEN Append(@, len - 1) ELSE @]
    /\ UNCHANGED <<run, iter, taken>>

ClearCall ==
    /\ status = "live"
    /\ Enter("clear", 0, 0, "clear")

TruncateCall ==
    /\ status = "live"
    /\ \E n \in Indices :
          IF truncate_shrinks(Self, n)
          THEN Enter("truncate", 0, n, "unchecked_truncate")
          ELSE Apply("truncate", 0, 0, n, Result(Self, "ok", <<>>, <<>>))

ResizeCall ==
    /\ status = "live"
    /\ \E n \in Indices, value \in Values :
          IF less_than_current(Self, n)
          THEN Enter("resize", value, n, "unchecked_truncate")
          ELSE IF more_than_current(Self, n)
          THEN Enter("resize", value, n, "fill")
          ELSE Apply("resize", 0, value, n,
                     Result(Self, "panic", <<>>,
                            <<"resize call bigger than capacity", len,
                              capacity>>))

ClearStep ==
    /\ status = "clear"
    /\ \E r \in {clear_step(Self)} : Iterate(r.vec, r.again, last.index)

UncheckedTruncateStep ==
    /\ status = "unchecked_truncate"
    /\ \E r \in {unchecked_truncate_step(Self, last.n)} :
          Iterate(r.vec, r.again, last.index)

FillStep ==
    /\ status = "fill"
    /\ \E r \in {fill_step(Self, last.index, last.n, last.value)} :
          Iterate(r.vec, r.again, r.idx)

LoopNext ==
    \/ Push
    \/ ClearCall
    \/ TruncateCall
    \/ ResizeCall
    \/ ClearStep
    \/ UncheckedTruncateStep
    \/ FillStep

\* a call that has been entered keeps running: nothing suspends it
LoopSpec ==
    /\ Init
    /\ [][LoopNext]_vars
    /\ WF_vars(ClearStep)
    /\ WF_vars(UncheckedTruncateStep)
    /\ WF_vars(FillStep)

\* ---- properties --------------------------------------------------------
Pre == last.pre

\* the elements at indices [from, to) are what they were before the call
SameRange(from, to) ==
    \A j \in Slots : (j >= from /\ j < to) => storage[j] = Pre.storage[j]

\* C1: in every reachable state, after any sequence of operations, also
\* those that panic, 0 <= len <= N.
C1_LenWithinCapacity == len >= 0 /\ len <= Cap

\* a push on a full container has panicked
C1_Witness == last.op = "push" /\ last.outcome = "panic" /\ len = Cap

\* C2: after every operation that returns normally, exactly the slots
\* [0, len) hold a live value and no slot of [len, N) does.
C2_LivePrefix ==
    last.outcome = "ok" => \A i \in Slots : live[i] <=> (i < len)

\* C3: with len < N and 0 <= i <= len, insert(i, v) returns normally, len
\* grows by one, index i reads v, the elements below i stay and the elements
\* from i on move up by one.
C3_InsertShifts ==
    (last.op = "insert" /\ Pre.len < Cap /\ last.index <= Pre.len) =>
        /\ last.outcome = "ok"
        /\ len = Pre.len + 1
        /\ storage[last.index] = last.value
        /\ SameRange(0, last.index)
        /\ \A j \in Slots : (j >= last.index /\ j < Pre.len) =>
                                storage[j + 1] = Pre.storage[j]

\* C4: with len < N, push(v) writes v into slot len, len grows by one and
\* the elements below stay; pushes into an empty container give the pushed
\* values in push order, up to N of them.
C4_PushAppends ==
    /\ (last.op = "push" /\ Pre.len < Cap) =>
          /\ last.outcome = "ok"
          /\ len = Pre.len + 1
          /\ storage[Pre.len] = last.value
          /\ live[Pre.len]
          /\ SameRange(0, Pre.len)
    /\ run.on =>
          /\ len = Len(run.seq)
          /\ \A i \in 1..Len(run.seq) : storage[i - 1] = run.seq[i]

\* N pushes into an empty container have filled it
C4_Witness == run.on /\ Len(run.seq) = Cap /\ len = Cap

\* the condition under which the last call violated its contract
Violation ==
    CASE last.op = "push" -> Pre.len = Cap
      [] last.op = "insert" -> last.index > Pre.len \/ Pre.len = Cap
      [] last.op = "resize" -> last.n > Cap
      [] last.op = "remove" -> last.index >= Pre.len
      [] last.op = "remove_swap" -> last.index >= Pre.len
      [] OTHER -> FALSE

Mutators == {"push", "insert", "resize", "remove", "remove_swap"}

\* C5: push, insert, resize, remove and remove_swap panic exactly when
\* the call violates its contract.
C5_PanicIffViolation ==
    last.op \in Mutators => (last.outcome = "panic" <=> Violation)

\* a remove at index == len of a non-empty container has panicked
C5_Witness ==
    /\ last.op = "remove" /\ last.index = Pre.len /\ Pre.len > 0
    /\ last.outcome = "panic"

\* C6: when a mutator panics, len, the slots and their liveness are what
\* they were before the call.
C6_PanicLeavesStateAlone ==
    (last.op \in Mutators /\ last.outcome = "panic") =>
        /\ len = Pre.len
        /\ storage = Pre.storage
        /\ live = Pre.live

\* a resize beyond the capacity of a partly filled container has panicked
C6_Witness ==
    /\ last.op = "resize" /\ last.outcome = "panic"
    /\ len > 0 /\ len < Cap

\* C7: pop on a non-empty container returns the element at len-1, len drops
\* by one and the elements below stay; pop on an empty container returns
\* None and len stays 0; the pop after a pop returns the element one index
\* lower, or None once the container is empty.
C7_PopTakesLast ==
    last.op = "pop" =>
        /\ last.outcome = "ok"
        /\ Pre.len > 0 =>
              /\ last.ret = <<Pre.storage[Pre.len - 1]>>
              /\ len = Pre.len - 1
              /\ ~live[len]
              /\ SameRange(0, len)
        /\ Pre.len = 0 => (last.ret = <<>> /\ len = 0 /\ storage = Pre.storage)
        /\ len > 0 => pop(Self).ret = <<Pre.storage[len - 1]>>
        /\ len = 0 => (pop(Self).ret = <<>> /\ pop(Self).vec.len = 0)

\* a pop has returned the last of several elements
C7_Witness ==
    last.op = "pop" /\ Pre.len = Cap /\ last.ret # <<>> /\ storage[0] # storage[len]

\* C8: with i < len, remove(i) returns the element at i, len drops by one,
\* the elements below i stay and the elements above i move down by one.
C8_RemoveClosesGap ==
    (last.op = "remove" /\ last.index < Pre.len) =>
        /\ last.outcome = "ok"
        /\ last.ret = <<Pre.storage[last.index]>>
        /\ len = Pre.len - 1
        /\ SameRange(0, last.index)
        /\ \A j \in Slots : (j > last.index /\ j < Pre.len) =>
                                storage[j - 1] = Pre.storage[j]

\* a remove in the middle of a full container of differing elements
C8_Witness ==
    /\ last.op = "remove" /\ last.outcome = "ok" /\ Pre.len = Cap
    /\ last.index > 0 /\ last.index < Pre.len - 1
    /\ Pre.storage[last.index] # Pre.storage[last.index + 1]

\* C9: with i < len, remove_swap(i) returns the element at i, len drops by
\* one, the last element moves to i (when i was not the last index) and
\* every other remaining element stays where it was.
C9_RemoveSwapMovesLast ==
    (last.op = "remove_swap" /\ last.index < Pre.len) =>
        /\ last.outcome = "ok"
        /\ last.ret = <<Pre.storage[last.index]>>
        /\ len = Pre.len - 1
        /\ last.index < Pre.len - 1 =>
              storage[last.index] = Pre.storage[Pre.len - 1]
        /\ \A j \in Slots : (j < len /\ j # last.index) =>
                                storage[j] = Pre.storage[j]
        /\ last.index = Pre.len - 1 =>
              (last.ret = pop(Pre).ret /\ Self = pop(Pre).vec)

\* a remove_swap at the front of a full container of differing elements
C9_Witness ==
    /\ last.op = "remove_swap" /\ last.outcome = "ok" /\ Pre.len = Cap
    /\ last.index = 0
    /\ Pre.storage[0] # Pre.storage[Cap - 1]
    /\ Pre.storage[1] # Pre.storage[Cap - 1]

\* C10: with n <= N, resize(n, fill) ends with len = n: below the old len
\* the kept elements are unchanged; when shrinking the elements of
\* [n, old len) are no longer live; when n is the old len nothing changes;
\* when growing every slot of [old len, n) holds fill.
C10_ResizeSetsLen ==
    (last.op = "resize" /\ last.n <= Cap) =>
        /\ last.outcome = "ok"
        /\ len = last.n
        /\ SameRange(0, Min(last.n, Pre.len))
        /\ \A j \in Slots :
              /\ (j >= last.n /\ j < Pre.len) => ~live[j]
              /\ (j >= Pre.len /\ j < last.n) =>
                    (storage[j] = last.value /\ live[j])
        /\ last.n = Pre.len => (storage = Pre.storage /\ live = Pre.live)

\* a resize has grown a partly filled container by more than one element
C10_Witness ==
    /\ last.op = "resize" /\ last.outcome = "ok"
    /\ Pre.len > 0 /\ last.n >= Pre.len + 2
    /\ storage[0] # last.value

IterOps == {"into_iter", "next", "iter_drop"}

\* how often slot i occurs in the sequence of dropped slots d
Drops(d, i) == Cardinality({j \in 1..Len(d) : d[j] = i})

\* C11: the iterator of a container with elements e0..e(k-1) yields them in
\* index order, each once; the call after the last element and every later
\* call return None; the cursor never exceeds the length.
C11_IterYieldsInOrder ==
    last.op \in IterOps =>
        /\ iter.len = Pre.len
        /\ iter.index <= iter.len
        /\ Len(taken.seq) = Min(taken.calls, Pre.len)
        /\ \A i \in 1..Len(taken.seq) : taken.seq[i] = Pre.storage[i - 1]
        /\ last.op = "next" =>
              IF taken.calls <= Pre.len
              THEN last.ret = <<Pre.storage[taken.calls - 1]>> /\ ~taken.ended
              ELSE last.ret = <<>> /\ taken.ended
        /\ (taken.ended /\ status = "iter") => next(iter).ret = <<>>

\* an iterator over a partly filled container has been called twice past
\* its end
C11_Witness ==
    /\ last.op = "next" /\ taken.calls = Pre.len + 2
    /\ Pre.len >= 2 /\ Pre.len < Cap
    /\ Pre.storage[0] # Pre.storage[1]

\* C12: after the conversion the container has len 0 and its destruction
\* drops nothing; dropping the iterator after c calls of next drops exactly
\* the slots [min(c, k), k), once each, and nothing is left owned.
C12_IterDropsRest ==
    /\ last.op = "into_iter" => last.dropped = <<>>
    /\ last.op \in IterOps => (len = 0 /\ \A i \in Slots : ~live[i])
    /\ last.op = "iter_drop" =>
          /\ \A i \in Slots :
                Drops(last.dropped, i) =
                    IF i >= Min(taken.calls, Pre.len) /\ i < Pre.len THEN 1 ELSE 0
          /\ Len(taken.seq) + Len(last.dropped) = Pre.len
          /\ \A i \in Slots : ~iter.live[i]

\* an iterator over a partly filled container is dropped half-way
C12_Witness ==
    /\ last.op = "iter_drop"
    /\ taken.calls > 0 /\ taken.calls < Pre.len /\ Pre.len < Cap
    /\ Len(last.dropped) > 0

\* the number of slots of vec that hold an owned value
Held(vec) == Cardinality({i \in Slots : vec.live[i]})

\* the number of values the last call handed to the container
Entered ==
    CASE last.op \in {"push", "insert"} /\ last.outcome = "ok" -> 1
      [] last.op = "resize" /\ last.outcome = "ok" /\ last.n >= Pre.len ->
            last.n - Pre.len
      [] last.op = "from_array" -> Len(last.array)
      [] last.op = "from_slice" -> Min(Cap, Len(last.array))
      [] last.op = "clone" -> Pre.len
      [] OTHER -> 0

\* C13: every value that entered the container is disposed of exactly once:
\* after each call the container holds what it held before, plus the
\* values that entered, minus the values returned and the values destroyed;
\* the container's destruction drops each slot of [0, len) once, each of
\* them holds a value, and no other slot does.
C13_ExactlyOnce ==
    /\ last.op \in {"push", "pop", "pop_if", "clear", "truncate", "resize",
                    "remove", "remove_swap", "insert"} =>
          Held(Self) = Held(Pre) + Entered - Len(last.ret) - Len(last.dropped)
    /\ last.op \in {"new", "default", "from_array", "from_slice", "clone"} =>
          Held(Self) = Entered
    /\ last.op = "drop" =>
          /\ \A i \in Slots :
                Drops(last.dropped, i) = IF i < Pre.len THEN 1 ELSE 0
          /\ \A i \in Slots : Pre.live[i] <=> i < Pre.len
          /\ Held(Self) = 0

\* the sequence of dropped slots d is each slot of [from, to) once
DropsExactly(d, from, to) ==
    \A i \in Slots : Drops(d, i) = IF i >= from /\ i < to THEN 1 ELSE 0

\* C14: truncate(n) returns normally; with n < len it destroys exactly the
\* elements [n, len), sets len to n and keeps [0, n); with n >= len, also
\* beyond the capacity, it changes nothing.  clear returns normally with
\* len 0 and every element destroyed.
C14_TruncateAndClear ==
    /\ last.op = "truncate" =>
          /\ last.outcome = "ok"
          /\ IF last.n < Pre.len
             THEN /\ len = last.n
                  /\ SameRange(0, last.n)
                  /\ DropsExactly(last.dropped, last.n, Pre.len)
                  /\ \A j \in Slots : j >= last.n => ~live[j]
             ELSE Self = Pre /\ last.dropped = <<>>
    /\ last.op = "clear" =>
          /\ last.outcome = "ok"
          /\ len = 0
          /\ DropsExactly(last.dropped, 0, Pre.len)
          /\ \A j \in Slots : ~live[j]

\* a truncate has cut a full container down to a non-empty prefix
C14_Witness ==
    /\ last.op = "truncate" /\ Pre.len = Cap
    /\ last.n > 0 /\ last.n < Pre.len - 1
    /\ Len(last.dropped) = Pre.len - last.n

\* C15 as claimed: pop_if on an empty container returns None and changes
\* nothing; on a non-empty one, a predicate answering true gives the effect
\* and result of pop, and a predicate answering false gives None and leaves
\* len and every element, the last one too, as before the call.
C15_PopIfNeverMutates ==
    last.op = "pop_if" =>
        /\ Pre.len = 0 => (last.ret = <<>> /\ Self = Pre)
        /\ (Pre.len > 0 /\ last.n = 1) =>
              (last.ret = pop(Pre).ret /\ Self = pop(Pre).vec)
        /\ (Pre.len > 0 /\ last.n = 0) => (last.ret = <<>> /\ Self = Pre)

\* the container as the predicate of the last pop_if left it
PreSeen ==
    IF Pre.len > 0 /\ last.value # Uninit
    THEN [Pre EXCEPT !.storage[Pre.len - 1] = last.value]
    ELSE Pre

\* C15, amended: pop_if on an empty container returns None and changes
\* nothing, whatever the predicate would do; on a non-empty one, a predicate
\* answering true gives the effect and result of pop on the container as
\* the predicate left it, and a predicate answering false gives None and
\* leaves len and every element but the last as before, the last element
\* being what the predicate left in it.
C15_PopIfMutatesOnlyByPredicate ==
    last.op = "pop_if" =>
        /\ last.outcome = "ok"
        /\ Pre.len = 0 => (last.ret = <<>> /\ Self = Pre)
        /\ (Pre.len > 0 /\ last.n = 1) =>
              (last.ret = pop(PreSeen).ret /\ Self = pop(PreSeen).vec)
        /\ (Pre.len > 0 /\ last.n = 0) =>
              /\ last.ret = <<>>
              /\ len = Pre.len
              /\ live = Pre.live
              /\ SameRange(0, Pre.len - 1)
              /\ \A j \in Slots : j >= Pre.len => storage[j] = Pre.storage[j]
              /\ storage[Pre.len - 1] = IF last.value = Uninit
                                        THEN Pre.storage[Pre.len - 1]
                                        ELSE last.value

\* a predicate has changed the last element and answered false
C15_Witness ==
    /\ last.op = "pop_if" /\ last.n = 0 /\ Pre.len > 1
    /\ last.value # Uninit /\ last.value # Pre.storage[Pre.len - 1]
    /\ last.ret = <<>>

\* C16: new() and default() give len 0; an array of N elements gives len N
\* with the elements in array order; a slice of k elements gives len
\* min(N, k) with the first min(N, k) elements in order, the rest being
\* dropped silently.  No constructor fails.
C16_Construction ==
    /\ last.op \in {"new", "default"} =>
          (last.outcome = "ok" /\ len = 0 /\ \A i \in Slots : ~live[i])
    /\ last.op = "from_array" =>
          /\ last.outcome = "ok"
          /\ Len(last.array) = Cap
          /\ len = Cap
          /\ \A i \in Slots : storage[i] = last.array[i + 1] /\ live[i]
    /\ last.op = "from_slice" =>
          /\ last.outcome = "ok"
          /\ len = IF Len(last.array) > Cap THEN Cap ELSE Len(last.array)
          /\ \A i \in Slots :
                IF i < len
                THEN storage[i] = last.array[i + 1] /\ live[i]
                ELSE ~live[i]

\* a slice longer than the capacity has been cut to the capacity
C16_Witness ==
    /\ last.op = "from_slice" /\ Len(last.array) = Cap + 1
    /\ last.array[1] # last.array[2] /\ len = Cap /\ status = "live"

\* C17: static_vec![e1, ..., ek; N] panics when k > N, and otherwise gives
\* a container of len k holding e1..ek in order.
C17_StaticVecAsserts ==
    last.op = "static_vec" =>
        IF Len(last.array) > Cap
        THEN last.outcome = "panic" /\ status = "dropped"
        ELSE /\ last.outcome = "ok" /\ status = "live"
             /\ len = Len(last.array)
             /\ \A i \in Slots :
                   IF i < len
                   THEN storage[i] = last.array[i + 1] /\ live[i]
                   ELSE ~live[i]

\* a list longer than the capacity has been refused
C17_Witness ==
    /\ last.op = "static_vec" /\ Len(last.array) = Cap + 1
    /\ last.outcome = "panic"

\* the elements of vec, in index order
Elements(vec) == [i \in 1..vec.len |-> vec.storage[i - 1]]

\* C18: in every state with len < N and for every value v, push(v)
\* followed by pop() returns v and leaves len and the elements as they were
\* before the push.
C18_PushPopIdentity ==
    (status = "live" /\ len < Cap) =>
        \A v \in Values :
            LET pushed == push(Self, v)
                popped == pop(pushed.vec)
            IN  /\ pushed.outcome = "ok" /\ popped.outcome = "ok"
                /\ popped.ret = <<v>>
                /\ popped.vec.len = len
                /\ Elements(popped.vec) = Elements(Self)
                /\ popped.vec.live = live

\* a pop has just undone a push onto a non-empty container
C18_Witness ==
    /\ last.op = "pop" /\ last.ret # <<>> /\ len > 0 /\ status = "live"
    /\ last.ret[1] \in Values
    /\ push(Self, last.ret[1]).vec = Pre

\* C19: in every state, for every n with len <= n <= N and every x,
\* resize(n, x) followed by resize(len, x) gives back the length and the
\* elements the container had.
C19_ResizeRoundTrip ==
    status = "live" =>
        \A n \in Indices, x \in Values :
            (n >= len /\ n <= Cap) =>
                LET grown == resize(Self, n, x)
                    back == resize(grown.vec, len, x)
                IN  /\ grown.outcome = "ok" /\ grown.vec.len = n
                    /\ back.outcome = "ok" /\ back.vec.len = len
                    /\ Elements(back.vec) = Elements(Self)
                    /\ back.vec.live = live

\* a resize has just shrunk a container back from a length it had been
\* grown to
C19_Witness ==
    /\ last.op = "resize" /\ last.outcome = "ok" /\ status = "live"
    /\ len > 0 /\ Pre.len >= len + 2
    /\ resize(Self, Pre.len, last.value).vec = Pre
    /\ storage[0] # last.value

\* C20: the message of every contract-violation panic names the offending
\* value and the bound it violated: the index and the length for remove,
\* remove_swap and insert, the capacity for push and for insert into a full
\* container, the requested length and the capacity for resize.
C20_PanicNamesOffender ==
    (last.op \in Mutators /\ last.outcome = "panic") =>
        CASE last.op \in {"remove", "remove_swap"} ->
                last.msg = <<"removal index", last.index, Pre.len>>
          [] last.op = "insert" ->
                IF last.index > Pre.len
                THEN last.msg = <<"insertion index", last.index, Pre.len>>
                ELSE last.msg = <<"capacity reached", Cap>>
          [] last.op = "push" -> last.msg = <<"capacity reached", Cap>>
          [] last.op = "resize" ->
                last.msg = <<"resize call bigger than capacity", last.n, Cap>>

\* the loops of clear, truncate and resize
Looping == {"clear", "unchecked_truncate", "fill"}

\* the target length of the shrinking call in last
Target == IF last.op = "clear" THEN 0 ELSE last.n

\* the call in last went through a shrink loop
Shrunk ==
    \/ last.op = "clear"
    \/ last.op \in {"truncate", "resize"} /\ last.n < Pre.len

\* C21: every call of clear, truncate(n) and resize(n, _) terminates for
\* every container state and every n: unchecked_truncate is only ever
\* entered with target < length, and a shrink loop that has returned has
\* made exactly length - target pops and left len at the target.
C21_LoopsTerminate ==
    /\ [](status = "unchecked_truncate" => last.n < Pre.len /\ last.n <= len)
    /\ [](status = "live" /\ last.outcome = "ok" /\ Shrunk
            => Len(last.dropped) = Pre.len - Target /\ len = Target)
    /\ (status \in Looping) ~> (status = "live")

\* resize(0, _) on a full container has popped every element and returned
C21_Witness ==
    /\ last.op = "resize" /\ last.outcome = "ok" /\ status = "live"
    /\ Pre.len = Cap /\ last.n = 0
    /\ Len(last.dropped) = Cap /\ len = 0

====
